---- MODULE Spec2Model ----
(***************************************************************************)
(* Model of pdf-redact-tool: PDFRedactor (pdf_redactor.py) and the CLI     *)
(* entry point main() (main.py).                                            *)
(*                                                                         *)
(* A text is a sequence of characters; a character is a one-element        *)
(* string, except "Idot", which stands for U+0130 (LATIN CAPITAL LETTER I  *)
(* WITH DOT ABOVE), whose str.lower() is the two code points "i" and       *)
(* "dot" (U+0307).                                                          *)
(***************************************************************************)
EXTENDS Integers, Sequences, FiniteSets, TLC

(***************************************************************************)
(* Bounds of the model.                                                     *)
(***************************************************************************)
MaxPages == 2
MaxPatterns == 2
MaxTextLen == 3
MaxPatLen == 2

(***************************************************************************)
(* Characters.                                                              *)
(***************************************************************************)
TextChars == {"a", "A", "b", "Idot", " "}
PatChars == {"a", "A", "b", "*", "("}

\* str.lower() of one character
LowerChar(c) ==
    CASE c = "A" -> <<"a">>
      [] c = "Idot" -> <<"i", "dot">>
      [] OTHER -> <<c>>

\* str.lower() of a text: the concatenation of the lower-cased characters
RECURSIVE Lower(_)
Lower(t) == IF t = <<>> THEN <<>> ELSE LowerChar(Head(t)) \o Lower(Tail(t))

\* \w of the regex engine (Unicode patterns): letters are word characters
IsWord(c) == c \in {"a", "A", "b", "Idot", "i"}

\* text[pos:pos+Len(sub)] = sub, pos 0-based
OccursAt(text, sub, pos) ==
    /\ pos + Len(sub) <= Len(text)
    /\ \A i \in 1..Len(sub) : text[pos + i] = sub[i]

\* str.find(sub, start): the lowest index >= start where sub occurs, or -1
StrFind(text, sub, start) ==
    LET hits == {p \in start..Len(text) : OccursAt(text, sub, p)}
    IN IF hits = {} THEN -1 ELSE CHOOSE p \in hits : \A q \in hits : p <= q

(***************************************************************************)
(* Geometry: a bbox is <<x0, y0, x1, y1>>.  The rectangle of an occurrence *)
(* (s, e) in a span of n characters is kept exactly, as numerators over    *)
(* the common denominator den: x0' = x0n/den, x1' = x1n/den.  When the     *)
(* text is empty char_width is 0 and both ends are x0.                      *)
(***************************************************************************)
OccRect(bbox, n, s, e) ==
    IF n = 0
    THEN [x0n |-> bbox[1], y0 |-> bbox[2], x1n |-> bbox[1], y1 |-> bbox[4], den |-> 1]
    ELSE [x0n |-> bbox[1] * n + s * (bbox[3] - bbox[1]), y0 |-> bbox[2],
          x1n |-> bbox[1] * n + e * (bbox[3] - bbox[1]), y1 |-> bbox[4], den |-> n]

\* one located instance: the span it lies in, its offsets, its rectangle
Instance(si, span, s, e) ==
    [span |-> si, s |-> s, e |-> e, rect |-> OccRect(span.bbox, Len(span.text), s, e)]

\* a scan whose cursor jumps past each hit (start = pos + len(pattern)), so
\* that overlapping occurrences are lost: not what lines 177-193 do
RECURSIVE CiSpanScanPastHit(_, _, _, _, _)
CiSpanScanPastHit(si, span, pattern, pattern_lower, start) ==
    LET pos == StrFind(Lower(span.text), pattern_lower, start)
    IN IF pos = -1 THEN <<>>
       ELSE <<Instance(si, span, pos, pos + Len(pattern))>>
            \o CiSpanScanPastHit(si, span, pattern, pattern_lower,
                   pos + (IF pattern = <<>> THEN 1 ELSE Len(pattern)))

(***************************************************************************)
(* _case_insensitive_search: the while-loop over one span.                 *)
(***************************************************************************)
RECURSIVE CiSpanScan(_, _, _, _, _)
CiSpanScan(si, span, pattern, pattern_lower, start) ==
    LET pos == StrFind(Lower(span.text), pattern_lower, start)
    IN IF pos = -1 THEN <<>>
       ELSE <<Instance(si, span, pos, pos + Len(pattern))>>
            \o CiSpanScan(si, span, pattern, pattern_lower, pos + 1)

RECURSIVE CiSpans(_, _, _)
CiSpans(spans, si, pattern) ==
    IF si > Len(spans) THEN <<>>
    ELSE CiSpanScan(si, spans[si], pattern, Lower(pattern), 0)
         \o CiSpans(spans, si + 1, pattern)

CaseInsensitiveSearch(spans, pattern) == CiSpans(spans, 1, pattern)

(***************************************************************************)
(* page.search_for (PyMuPDF), reached when case_sensitive is set: exact    *)
(* substring search inside each span, hits do not overlap, an empty needle *)
(* has no hit.                                                              *)
(***************************************************************************)
RECURSIVE SearchSpanScan(_, _, _, _)
SearchSpanScan(si, span, pattern, start) ==
    LET pos == IF pattern = <<>> THEN -1 ELSE StrFind(span.text, pattern, start)
    IN IF pos = -1 THEN <<>>
       ELSE <<Instance(si, span, pos, pos + Len(pattern))>>
            \o SearchSpanScan(si, span, pattern, pos + Len(pattern))

RECURSIVE SearchSpans(_, _, _)
SearchSpans(spans, si, pattern) ==
    IF si > Len(spans) THEN <<>>
    ELSE SearchSpanScan(si, spans[si], pattern, 0) \o SearchSpans(spans, si + 1, pattern)

search_for(spans, pattern) == SearchSpans(spans, 1, pattern)

\* _filter_whole_words: every instance is appended to the filtered list
RECURSIVE FilterWholeWords(_)
FilterWholeWords(instances) ==
    IF instances = <<>> THEN <<>>
    ELSE <<Head(instances)>> \o FilterWholeWords(Tail(instances))

\* _find_text_instances
FindTextInstances(spans, pattern, case_sensitive, whole_words_only) ==
    LET instances == IF case_sensitive THEN search_for(spans, pattern)
                     ELSE CaseInsensitiveSearch(spans, pattern)
    IN IF whole_words_only THEN FilterWholeWords(instances) ELSE instances

(***************************************************************************)
(* The regex engine (re.compile, finditer) for the patterns the model      *)
(* draws: literal characters, the greedy repeat "*", the opening           *)
(* parenthesis (never closed, PatChars has no ")") and the word-boundary   *)
(* assertion "\\b" that whole_words_only wraps around the pattern.          *)
(***************************************************************************)
Bnd == "\\b"

RegexError == [ok |-> FALSE, atoms |-> <<>>]

\* re.compile: parse the pattern into atoms, or fail with re.error
RECURSIVE ParseRegex(_, _, _)
ParseRegex(p, i, atoms) ==
    IF i > Len(p) THEN [ok |-> TRUE, atoms |-> atoms]
    ELSE IF p[i] = "(" THEN RegexError   \* missing ), unterminated subpattern
    ELSE IF p[i] = "*"
         THEN IF atoms = <<>> THEN RegexError   \* nothing to repeat
              ELSE LET last == atoms[Len(atoms)]
                   IN IF last.kind = "bnd" THEN RegexError   \* nothing to repeat
                      ELSE IF last.star THEN RegexError      \* multiple repeat
                      ELSE ParseRegex(p, i + 1,
                               [atoms EXCEPT ![Len(atoms)] = [last EXCEPT !.star = TRUE]])
    ELSE IF p[i] = Bnd
         THEN ParseRegex(p, i + 1, Append(atoms, [kind |-> "bnd", c |-> Bnd, star |-> FALSE]))
    ELSE ParseRegex(p, i + 1, Append(atoms, [kind |-> "chr", c |-> p[i], star |-> FALSE]))

ReCompile(p) == ParseRegex(p, 1, <<>>)

\* one pattern character against one text character, under re.IGNORECASE or not
CharEq(c, t, case_sensitive) ==
    IF case_sensitive THEN c = t ELSE Head(LowerChar(c)) = Head(LowerChar(t))

\* \b at pos (0-based, between text[pos] and text[pos+1])
IsBoundary(text, pos) ==
    LET before == pos > 0 /\ IsWord(text[pos])
        after == pos < Len(text) /\ IsWord(text[pos + 1])
    IN before # after

\* number of consecutive characters from pos that match c
RECURSIVE RunLen(_, _, _, _)
RunLen(text, pos, c, cs) ==
    IF pos < Len(text) /\ CharEq(c, text[pos + 1], cs)
    THEN 1 + RunLen(text, pos + 1, c, cs) ELSE 0

\* backtracking match of atoms[i..] at pos: the end of the first match in
\* priority order (greedy repeats first), or -1
RECURSIVE MatchFrom(_, _, _, _, _), TryStar(_, _, _, _, _, _)
MatchFrom(atoms, i, text, pos, cs) ==
    IF i > Len(atoms) THEN pos
    ELSE LET a == atoms[i]
         IN IF a.kind = "bnd"
            THEN IF IsBoundary(text, pos) THEN MatchFrom(atoms, i + 1, text, pos, cs) ELSE -1
            ELSE IF a.star
            THEN TryStar(atoms, i, text, pos, RunLen(text, pos, a.c, cs), cs)
            ELSE IF pos < Len(text) /\ CharEq(a.c, text[pos + 1], cs)
                 THEN MatchFrom(atoms, i + 1, text, pos + 1, cs) ELSE -1
TryStar(atoms, i, text, pos, k, cs) ==
    LET e == MatchFrom(atoms, i + 1, text, pos + k, cs)
    IN IF e # -1 THEN e
       ELSE IF k = 0 THEN -1 ELSE TryStar(atoms, i, text, pos, k - 1, cs)

\* compiled_pattern.finditer(text): leftmost matches, scanning on from the
\* end of each match; after an empty match the scan moves one character on
RECURSIVE FindIter(_, _, _, _)
FindIter(atoms, text, pos, cs) ==
    IF pos > Len(text) THEN <<>>
    ELSE LET e == MatchFrom(atoms, 1, text, pos, cs)
         IN IF e = -1 THEN FindIter(atoms, text, pos + 1, cs)
            ELSE <<<<pos, e>>>> \o (IF e = pos THEN FindIter(atoms, text, pos + 1, cs)
                                    ELSE FindIter(atoms, text, e, cs))

RECURSIVE MatchInstances(_, _, _)
MatchInstances(si, span, matches) ==
    IF matches = <<>> THEN <<>>
    ELSE <<Instance(si, span, Head(matches)[1], Head(matches)[2])>>
         \o MatchInstances(si, span, Tail(matches))

RECURSIVE RegexSpans(_, _, _, _)
RegexSpans(spans, si, atoms, cs) ==
    IF si > Len(spans) THEN <<>>
    ELSE MatchInstances(si, spans[si], FindIter(atoms, spans[si].text, 0, cs))
         \o RegexSpans(spans, si + 1, atoms, cs)

\* the pattern _find_regex_instances compiles
RegexSource(pattern, whole_words_only) ==
    IF whole_words_only THEN <<Bnd>> \o pattern \o <<Bnd>> ELSE pattern

\* _find_regex_instances falling back to the literal search when the
\* pattern does not compile
FindRegexOrLiteral(spans, pattern, case_sensitive, whole_words_only) ==
    LET compiled == ReCompile(RegexSource(pattern, whole_words_only))
    IN IF ~compiled.ok THEN FindTextInstances(spans, pattern, case_sensitive, FALSE)
       ELSE RegexSpans(spans, 1, compiled.atoms, case_sensitive)

\* _find_regex_instances
FindRegexInstances(spans, pattern, case_sensitive, whole_words_only) ==
    LET compiled == ReCompile(RegexSource(pattern, whole_words_only))
    IN IF ~compiled.ok THEN <<>>
       ELSE RegexSpans(spans, 1, compiled.atoms, case_sensitive)

\* the locator call of _redact_pattern and preview_redactions
FindInstances(spans, pattern, case_sensitive, use_regex, whole_words_only) ==
    IF use_regex THEN FindRegexInstances(spans, pattern, case_sensitive, whole_words_only)
    ELSE FindTextInstances(spans, pattern, case_sensitive, whole_words_only)

(***************************************************************************)
(* Documents and arguments the model draws.                                 *)
(***************************************************************************)
Sp(t, b) == [text |-> t, bbox |-> b]

Pages == { <<Sp(<<"a", "A", "a">>, <<0, 0, 30, 10>>)>>,
           <<Sp(<<"(", "(">>, <<0, 0, 20, 10>>), Sp(<<>>, <<20, 0, 20, 10>>)>> }

SeqsUpTo(S, lo, hi) == UNION {[1..n -> S] : n \in lo..hi}

Docs == SeqsUpTo(Pages, 1, MaxPages)

PatternSet == { <<"a", "*">>, <<"(">> }

PatternLists == SeqsUpTo(PatternSet, 1, MaxPatterns)

\* sorted(set of integers)
RECURSIVE Sorted(_)
Sorted(S) ==
    IF S = {} THEN <<>>
    ELSE LET m == CHOOSE x \in S : \A y \in S : x <= y
         IN <<m>> \o Sorted(S \ {m})

\* QPDF_SUCCESS_CODES
QPDF_SUCCESS_CODES == {0, 2, 3}

\* exit statuses the optimizer process is let to end with
Statuses == {0, 2, 3, 4}

\* parameters of PDFRedactor.__init__ next to self, and the keywords the
\* callers pass: main() passes show_progress, a library caller passes none
InitParams == {"input_file", "output_file"}
CallKeywords(e) == IF e = "cli" THEN {"show_progress"} ELSE {}

VARIABLES
    entry,            \* "cli": main() drives the redactor; "api": a library caller
    args,             \* patterns, case_sensitive, use_regex, whole_words_only, dry_run
    inputExists,      \* self.input_file.exists()
    fileDoc,          \* the document stored at input_file
    pc,               \* position of the run
    mode,             \* "apply" (find_and_redact_text) or "preview" (preview_redactions)
    doc,              \* pages of the open document handle
    docOpen,          \* the handle is open
    pi,               \* index of the current pattern
    pg,               \* page_num + 1
    page_instances,   \* page_instances of the current page
    k,                \* index of the next instance to mark
    marks,            \* per page, the redaction annotations not yet applied
    pattern_count,    \* pattern_count of the current pattern
    pattern_pages,    \* pattern_pages of the current pattern (preview)
    total_redacted,   \* total_redacted
    preview_results,  \* preview_results
    tmp,              \* the temporary file: "absent", "empty", "partial", "raw"
    out,              \* the file at output_file: "absent", "partial", "complete"
    exc,              \* the exception in flight, "none" when there is none
    result,           \* what the last call returned, "none" when it raised
    exitCode,         \* what main() returned, -1 before
    log,              \* calls made on the collaborators in this run
    faults,           \* faults the collaborators raised in this run
    lastStatus,       \* exit status of the optimizer in this run, -1 when not run
    prevSummary       \* summary of the previous preview on this redactor

vars == <<entry, args, inputExists, fileDoc, pc, mode, doc, docOpen, pi, pg,
          page_instances, k, marks, pattern_count, pattern_pages, total_redacted,
          preview_results, tmp, out, exc, result, exitCode, log, faults, lastStatus,
          prevSummary>>

inputs == <<entry, args, inputExists, fileDoc>>
counters == <<pattern_count, pattern_pages, total_redacted, preview_results>>
files == <<tmp, out>>

NoResult == [kind |-> "none", value |-> 0]

EmptyPreview == [total_instances |-> 0, patterns |-> <<>>, pages_affected |-> {}]

Event(op, n) == [op |-> op, pi |-> pi, pg |-> pg, n |-> n]

Init ==
    /\ entry \in {"cli", "api"}
    /\ args \in [patterns : PatternLists, case_sensitive : BOOLEAN,
                 use_regex : BOOLEAN, whole_words_only : BOOLEAN, dry_run : BOOLEAN]
    /\ entry = "api" => ~args.dry_run
    /\ inputExists \in BOOLEAN
    /\ fileDoc \in Docs
    /\ pc = "start"
    /\ mode = "none"
    /\ doc = <<>>
    /\ docOpen = FALSE
    /\ pi = 1
    /\ pg = 1
    /\ page_instances = <<>>
    /\ k = 1
    /\ marks = <<>>
    /\ pattern_count = 0
    /\ pattern_pages = {}
    /\ total_redacted = 0
    /\ preview_results = EmptyPreview
    /\ tmp = "absent"
    /\ out = "absent"
    /\ exc = "none"
    /\ result = NoResult
    /\ exitCode = -1
    /\ log = <<>>
    /\ faults = {}
    /\ lastStatus = -1
    /\ prevSummary = NoResult

(***************************************************************************)
(* PDFRedactor.__init__, as main() and a library caller invoke it.  A      *)
(* keyword the signature does not have raises TypeError before the body    *)
(* runs; the body raises FileNotFoundError when the input is missing.       *)
(***************************************************************************)
Raised(e) == IF e = "cli" THEN "main" ELSE "done"

PDFRedactor_init ==
    /\ pc = "start"
    /\ IF ~(CallKeywords(entry) \subseteq InitParams)
       THEN exc' = "TypeError" /\ pc' = Raised(entry)
       ELSE IF ~inputExists
       THEN exc' = "FileNotFoundError" /\ pc' = Raised(entry)
       ELSE exc' = "none" /\ pc' = "idle"
    /\ UNCHANGED <<inputs, mode, doc, docOpen, pi, pg, page_instances, k, marks,
                   counters, files, result, exitCode, log, faults, lastStatus, prevSummary>>

\* the caller enters find_and_redact_text ("apply") or preview_redactions
\* ("preview"); main() chooses by args.dry_run and calls once (it returns
\* after the call), a library caller may call again and again
Call(m) ==
    /\ pc = "idle"
    /\ entry = "cli" => m = (IF args.dry_run THEN "preview" ELSE "apply")
    /\ mode' = m
    /\ pc' = "open"
    /\ pi' = 1 /\ pg' = 1 /\ k' = 1
    /\ page_instances' = <<>>
    /\ pattern_count' = 0 /\ pattern_pages' = {} /\ total_redacted' = 0
    /\ preview_results' = EmptyPreview
    /\ exc' = "none" /\ result' = NoResult
    /\ log' = <<>> /\ faults' = {} /\ lastStatus' = -1
    /\ UNCHANGED <<inputs, doc, docOpen, marks, files, exitCode, prevSummary>>

\* pymupdf.open inside try/except Exception: a fault becomes RedactionError
Open(o) ==
    /\ pc = "open"
    /\ log' = Append(log, Event("open", 0))
    /\ CASE o = "ok" ->
              /\ doc' = fileDoc
              /\ docOpen' = TRUE
              /\ marks' = [q \in 1..Len(fileDoc) |-> <<>>]
              /\ pc' = IF mode = "apply" THEN "search" ELSE "psearch"
              /\ UNCHANGED <<exc, faults>>
         [] o = "error" ->
              /\ exc' = "RedactionError"
              /\ faults' = faults \cup {"open"}
              /\ pc' = "return"
              /\ UNCHANGED <<doc, docOpen, marks>>
         [] o = "interrupt" ->
              /\ exc' = "KeyboardInterrupt"
              /\ faults' = faults \cup {"interrupt"}
              /\ pc' = "return"
              /\ UNCHANGED <<doc, docOpen, marks>>
    /\ UNCHANGED <<inputs, mode, pi, pg, page_instances, k, counters, files,
                   result, exitCode, lastStatus, prevSummary>>

\* page.apply_redactions (PyMuPDF): the characters under the marks are
\* removed; a removed glyph leaves a gap in the span
Covered(ms, si, i) ==
    \E j \in 1..Len(ms) : ms[j].span = si /\ ms[j].s < i /\ i <= ms[j].e

ApplyRedactions(page, ms) ==
    [si \in 1..Len(page) |->
        [page[si] EXCEPT !.text =
            [i \in 1..Len(page[si].text) |->
                IF Covered(ms, si, i) THEN " " ELSE page[si].text[i]]]]

\* AfterPage with the patterns iterated inside the page loop (page-major)
AfterPagePageMajor(count) ==
    IF pi < Len(args.patterns)
    THEN [pc |-> "search", pi |-> pi + 1, pg |-> pg, count |-> 0, total |-> total_redacted + count]
    ELSE IF pg < Len(doc)
    THEN [pc |-> "search", pi |-> 1, pg |-> pg + 1, count |-> 0, total |-> total_redacted + count]
    ELSE [pc |-> "tmp", pi |-> pi, pg |-> pg, count |-> 0, total |-> total_redacted + count]

\* where _redact_pattern and find_and_redact_text go once a page is done,
\* given the pattern_count reached: the next page, the next pattern
\* (total_redacted += pattern_redacted), or _save_and_optimize
AfterPage(count) ==
    IF pg < Len(doc)
    THEN [pc |-> "search", pi |-> pi, pg |-> pg + 1, count |-> count, total |-> total_redacted]
    ELSE IF pi < Len(args.patterns)
    THEN [pc |-> "search", pi |-> pi + 1, pg |-> 1, count |-> 0, total |-> total_redacted + count]
    ELSE [pc |-> "tmp", pi |-> pi, pg |-> pg, count |-> 0, total |-> total_redacted + count]

\* _redact_pattern, lines 117-130: locate the instances on the page
Search ==
    /\ pc = "search"
    /\ LET inst == FindInstances(doc[pg], args.patterns[pi], args.case_sensitive,
                                 args.use_regex, args.whole_words_only)
           nxt == AfterPage(pattern_count)
       IN /\ page_instances' = inst
          /\ log' = Append(log, Event("search", Len(inst)))
          /\ IF inst # <<>>
             THEN /\ pattern_count' = pattern_count + Len(inst)
                  /\ k' = 1
                  /\ pc' = "mark"
                  /\ UNCHANGED <<pi, pg, total_redacted>>
             ELSE /\ pc' = nxt.pc /\ pi' = nxt.pi /\ pg' = nxt.pg
                  /\ pattern_count' = nxt.count /\ total_redacted' = nxt.total
                  /\ UNCHANGED k
    /\ UNCHANGED <<inputs, mode, doc, docOpen, marks, pattern_pages, preview_results,
                   files, exc, result, exitCode, faults, lastStatus, prevSummary>>

\* _redact_pattern, lines 132-133: page.add_redact_annot(instance)
Mark(o) ==
    /\ pc = "mark"
    /\ log' = Append(log, Event("mark", k))
    /\ CASE o = "ok" ->
              /\ marks' = [marks EXCEPT ![pg] = Append(@, page_instances[k])]
              /\ k' = k + 1
              /\ pc' = IF k = Len(page_instances) THEN "commit" ELSE "mark"
              /\ UNCHANGED <<exc, faults>>
         [] o = "error" ->
              /\ exc' = "LibraryError"
              /\ faults' = faults \cup {"mark"}
              /\ pc' = "close"
              /\ UNCHANGED <<marks, k>>
         [] o = "interrupt" ->
              /\ exc' = "KeyboardInterrupt"
              /\ faults' = faults \cup {"interrupt"}
              /\ pc' = "close"
              /\ UNCHANGED <<marks, k>>
    /\ UNCHANGED <<inputs, mode, doc, docOpen, pi, pg, page_instances, counters,
                   files, result, exitCode, lastStatus, prevSummary>>

\* Commit with apply_redactions called after the page loop instead of
\* inside it: only the last page is committed
CommitAfterLoop(o) ==
    /\ pc = "commit"
    /\ log' = Append(log, Event("commit", Len(marks[pg])))
    /\ LET nxt == AfterPage(pattern_count)
       IN CASE o = "ok" ->
              /\ doc' = IF pg < Len(doc) THEN doc
                        ELSE [doc EXCEPT ![pg] = ApplyRedactions(@, marks[pg])]
              /\ marks' = IF pg < Len(doc) THEN marks ELSE [marks EXCEPT ![pg] = <<>>]
              /\ pc' = nxt.pc /\ pi' = nxt.pi /\ pg' = nxt.pg
              /\ pattern_count' = nxt.count /\ total_redacted' = nxt.total
              /\ UNCHANGED <<exc, faults>>
         [] o = "error" ->
              /\ exc' = "LibraryError"
              /\ faults' = faults \cup {"commit"}
              /\ pc' = "close"
              /\ UNCHANGED <<doc, marks, pi, pg, pattern_count, total_redacted>>
         [] o = "interrupt" ->
              /\ exc' = "KeyboardInterrupt"
              /\ faults' = faults \cup {"interrupt"}
              /\ pc' = "close"
              /\ UNCHANGED <<doc, marks, pi, pg, pattern_count, total_redacted>>
    /\ UNCHANGED <<inputs, mode, docOpen, page_instances, k, pattern_pages,
                   preview_results, files, result, exitCode, lastStatus, prevSummary>>

\* _redact_pattern, line 135: page.apply_redactions()
Commit(o) ==
    /\ pc = "commit"
    /\ log' = Append(log, Event("commit", Len(marks[pg])))
    /\ LET nxt == AfterPage(pattern_count)
       IN CASE o = "ok" ->
              /\ doc' = [doc EXCEPT ![pg] = ApplyRedactions(@, marks[pg])]
              /\ marks' = [marks EXCEPT ![pg] = <<>>]
              /\ pc' = nxt.pc /\ pi' = nxt.pi /\ pg' = nxt.pg
              /\ pattern_count' = nxt.count /\ total_redacted' = nxt.total
              /\ UNCHANGED <<exc, faults>>
         [] o = "error" ->
              /\ exc' = "LibraryError"
              /\ faults' = faults \cup {"commit"}
              /\ pc' = "close"
              /\ UNCHANGED <<doc, marks, pi, pg, pattern_count, total_redacted>>
         [] o = "interrupt" ->
              /\ exc' = "KeyboardInterrupt"
              /\ faults' = faults \cup {"interrupt"}
              /\ pc' = "close"
              /\ UNCHANGED <<doc, marks, pi, pg, pattern_count, total_redacted>>
    /\ UNCHANGED <<inputs, mode, docOpen, page_instances, k, pattern_pages,
                   preview_results, files, result, exitCode, lastStatus, prevSummary>>

\* _temp_pdf_file, lines 49-54: the temporary file is created and closed
TempFile ==
    /\ pc = "tmp"
    /\ tmp' = "empty"
    /\ pc' = "save"
    /\ UNCHANGED <<inputs, mode, doc, docOpen, pi, pg, page_instances, k, marks,
                   counters, out, exc, result, exitCode, log, faults, lastStatus,
                   prevSummary>>

\* _save_and_optimize, line 259: doc.save(temp_filename, ...); except
\* Exception turns a fault into RedactionError, KeyboardInterrupt passes
Save(o) ==
    /\ pc = "save"
    /\ log' = Append(log, Event("save", 0))
    /\ CASE o = "ok" ->
              /\ tmp' = "raw"
              /\ pc' = "optimize"
              /\ UNCHANGED <<exc, faults>>
         [] o = "error" ->
              /\ tmp' = "partial"
              /\ exc' = "RedactionError"
              /\ faults' = faults \cup {"save"}
              /\ pc' = "cleanup"
         [] o = "interrupt" ->
              /\ tmp' = "partial"
              /\ exc' = "KeyboardInterrupt"
              /\ faults' = faults \cup {"interrupt"}
              /\ pc' = "cleanup"
    /\ UNCHANGED <<inputs, mode, doc, docOpen, pi, pg, page_instances, k, marks,
                   counters, out, result, exitCode, lastStatus, prevSummary>>

\* StatusFault with only a clean exit accepted
StatusFaultZeroOnly(st) == IF st = 0 THEN "none" ELSE "CalledProcessError"

\* what _optimize_with_qpdf raises for an exit status
StatusFault(st) == IF st \in QPDF_SUCCESS_CODES THEN "none" ELSE "CalledProcessError"

\* what the except clause of _save_and_optimize makes of it
Wrapped(e) == IF e = "none" THEN "none" ELSE "RedactionError"

\* the file at output_file after a qpdf process that failed or was
\* interrupted: untouched or partly written
Left(w) == IF w = "keep" THEN out ELSE w

\* _optimize_with_qpdf: subprocess.run of qpdf on (temp_filename,
\* output_file).  o is "ran" (the process ended with status st, having
\* left the output file as w says), "missing" (no qpdf binary) or
\* "interrupt".
Optimize(o, st, w) ==
    /\ pc = "optimize"
    /\ log' = Append(log, Event("optimize", 0))
    /\ pc' = "cleanup"
    /\ CASE o = "ran" ->
              /\ lastStatus' = st
              /\ out' = IF StatusFault(st) = "none" THEN "complete" ELSE Left(w)
              /\ exc' = Wrapped(StatusFault(st))
              /\ faults' = IF StatusFault(st) = "none" THEN faults
                           ELSE faults \cup {"qpdf_status"}
         [] o = "missing" ->
              /\ exc' = Wrapped("RedactionError")
              /\ faults' = faults \cup {"qpdf_missing"}
              /\ UNCHANGED <<out, lastStatus>>
         [] o = "interrupt" ->
              /\ out' = Left(w)
              /\ exc' = "KeyboardInterrupt"
              /\ faults' = faults \cup {"interrupt"}
              /\ UNCHANGED lastStatus
    /\ UNCHANGED <<inputs, mode, doc, docOpen, pi, pg, page_instances, k, marks,
                   counters, tmp, result, exitCode, prevSummary>>

\* Cleanup without the try/finally: the file is removed only when the body
\* of the with-block ended normally
CleanupOnSuccess ==
    /\ pc = "cleanup"
    /\ tmp' = IF exc = "none" THEN "absent" ELSE tmp
    /\ pc' = "close"
    /\ UNCHANGED <<inputs, mode, doc, docOpen, pi, pg, page_instances, k, marks,
                   counters, out, exc, result, exitCode, log, faults, lastStatus,
                   prevSummary>>

\* _temp_pdf_file, lines 55-57: finally, remove the file if it exists
Cleanup ==
    /\ pc = "cleanup"
    /\ tmp' = "absent"
    /\ pc' = "close"
    /\ UNCHANGED <<inputs, mode, doc, docOpen, pi, pg, page_instances, k, marks,
                   counters, out, exc, result, exitCode, log, faults, lastStatus,
                   prevSummary>>

\* finally: doc.close()
Close ==
    /\ pc = "close"
    /\ docOpen' = FALSE
    /\ log' = Append(log, Event("close", 0))
    /\ pc' = "return"
    /\ UNCHANGED <<inputs, mode, doc, pi, pg, page_instances, k, marks, counters,
                   files, exc, result, exitCode, faults, lastStatus, prevSummary>>

\* the summary preview_redactions returns: pages_affected sorted
Summary(pr) == [pr EXCEPT !.pages_affected = Sorted(@)]

\* the call returns its value or raises to the caller; its locals (the
\* closed handle with its pages and marks) are gone
Return ==
    /\ pc = "return"
    /\ doc' = <<>>
    /\ marks' = <<>>
    /\ pc' = IF entry = "cli" THEN "main" ELSE "idle"
    /\ result' = IF exc # "none" THEN NoResult
                 ELSE IF mode = "apply" THEN [kind |-> "count", value |-> total_redacted]
                 ELSE [kind |-> "summary", value |-> Summary(preview_results)]
    /\ prevSummary' = IF mode = "preview" /\ exc = "none"
                      THEN [kind |-> "summary", value |-> Summary(preview_results)]
                      ELSE prevSummary
    /\ UNCHANGED <<inputs, mode, docOpen, pi, pg, page_instances, k, counters,
                   files, exc, exitCode, log, faults, lastStatus>>

\* PreviewSearch that marks and applies what it finds on the open document
PreviewSearchRedacting ==
    /\ pc = "psearch"
    /\ LET pattern == args.patterns[pi]
           inst == FindInstances(doc[pg], pattern, args.case_sensitive,
                                 args.use_regex, args.whole_words_only)
           count == IF inst # <<>> THEN pattern_count + Len(inst) ELSE pattern_count
           pages == IF inst # <<>> THEN pattern_pages \cup {pg} ELSE pattern_pages
           affected == IF inst # <<>> THEN preview_results.pages_affected \cup {pg}
                       ELSE preview_results.pages_affected
           report == [count |-> count, pages |-> Sorted(pages)]
       IN /\ page_instances' = inst
          /\ doc' = [doc EXCEPT ![pg] = ApplyRedactions(@, inst)]
          /\ log' = Append(log, Event("search", Len(inst)))
          /\ IF pg < Len(doc)
             THEN /\ pg' = pg + 1
                  /\ pattern_count' = count
                  /\ pattern_pages' = pages
                  /\ preview_results' = [preview_results EXCEPT !.pages_affected = affected]
                  /\ UNCHANGED <<pi, pc>>
             ELSE /\ preview_results' =
                        [total_instances |-> preview_results.total_instances + count,
                         patterns |-> (pattern :> report) @@ preview_results.patterns,
                         pages_affected |-> affected]
                  /\ pattern_count' = 0
                  /\ pattern_pages' = {}
                  /\ IF pi < Len(args.patterns)
                     THEN pi' = pi + 1 /\ pg' = 1 /\ UNCHANGED pc
                     ELSE pc' = "close" /\ UNCHANGED <<pi, pg>>
    /\ UNCHANGED <<inputs, mode, docOpen, k, marks, total_redacted, files,
                   exc, result, exitCode, faults, lastStatus, prevSummary>>

\* preview_redactions, lines 336-363: one page of one pattern
PreviewSearch ==
    /\ pc = "psearch"
    /\ LET pattern == args.patterns[pi]
           inst == FindInstances(doc[pg], pattern, args.case_sensitive,
                                 args.use_regex, args.whole_words_only)
           count == IF inst # <<>> THEN pattern_count + Len(inst) ELSE pattern_count
           pages == IF inst # <<>> THEN pattern_pages \cup {pg} ELSE pattern_pages
           affected == IF inst # <<>> THEN preview_results.pages_affected \cup {pg}
                       ELSE preview_results.pages_affected
           report == [count |-> count, pages |-> Sorted(pages)]
       IN /\ page_instances' = inst
          /\ log' = Append(log, Event("search", Len(inst)))
          /\ IF pg < Len(doc)
             THEN /\ pg' = pg + 1
                  /\ pattern_count' = count
                  /\ pattern_pages' = pages
                  /\ preview_results' = [preview_results EXCEPT !.pages_affected = affected]
                  /\ UNCHANGED <<pi, pc>>
             ELSE /\ preview_results' =
                        [total_instances |-> preview_results.total_instances + count,
                         patterns |-> (pattern :> report) @@ preview_results.patterns,
                         pages_affected |-> affected]
                  /\ pattern_count' = 0
                  /\ pattern_pages' = {}
                  /\ IF pi < Len(args.patterns)
                     THEN pi' = pi + 1 /\ pg' = 1 /\ UNCHANGED pc
                     ELSE pc' = "close" /\ UNCHANGED <<pi, pg>>
    /\ UNCHANGED <<inputs, mode, doc, docOpen, k, marks, total_redacted, files,
                   exc, result, exitCode, faults, lastStatus, prevSummary>>

\* main(), lines 95-150: the exit code.  get_size_info raises
\* FileNotFoundError when there is no file at output_file.
MainExit ==
    /\ entry = "cli"
    /\ pc = "main"
    /\ exitCode' = IF exc # "none" THEN 1
                   ELSE IF mode = "preview" THEN 0
                   ELSE IF out = "absent" THEN 1
                   ELSE 0
    /\ pc' = "done"
    /\ UNCHANGED <<inputs, mode, doc, docOpen, pi, pg, page_instances, k, marks,
                   counters, files, exc, result, log, faults, lastStatus, prevSummary>>

\* how a collaborator call ends; the user's interrupt is let to arrive
\* while the temporary file is held
Outcomes == {"ok", "error"}
HeldOutcomes == {"ok", "error", "interrupt"}

Next ==
    \/ PDFRedactor_init
    \/ \E m \in {"apply", "preview"} : Call(m)
    \/ \E o \in Outcomes : Open(o)
    \/ Search
    \/ \E o \in Outcomes : Mark(o)
    \/ \E o \in Outcomes : Commit(o)
    \/ TempFile
    \/ \E o \in HeldOutcomes : Save(o)
    \/ \E o \in {"ran", "missing", "interrupt"}, st \in Statuses,
          w \in {"keep", "partial"} : Optimize(o, st, w)
    \/ Cleanup
    \/ Close
    \/ Return
    \/ PreviewSearch
    \/ MainExit

Spec == Init /\ [][Next]_vars

(***************************************************************************)
(* Properties.                                                              *)
(***************************************************************************)
Ops(op) == SelectSeq(log, LAMBDA ev : ev.op = op)

Searches == Ops("search")

Has(op) == \E j \in 1..Len(log) : log[j].op = op

InRun == {"search", "mark", "commit", "tmp", "save", "optimize", "cleanup", "close", "return"}

\* C1: in apply mode every rectangle located on a page is marked exactly
\* once, in order, and the marks are committed on that page before the run
\* searches or marks another page, starts another pattern or saves: a page
\* other than the current one never holds uncommitted marks, the marks of
\* the current page are the instances marked so far, and in the log every
\* search that found n > 0 instances and was followed by a later search or
\* the save is followed at once by the marks 1..n and the commit of those n
\* marks on the same page.
C1_MarkedOnceThenCommitted ==
    (mode = "apply" /\ pc \in InRun /\ docOpen) =>
        /\ pc \in {"search", "mark", "commit"} =>
               \A q \in DOMAIN marks : q # pg => marks[q] = <<>>
        /\ pc = "search" => marks[pg] = <<>>
        /\ pc = "mark" => marks[pg] = SubSeq(page_instances, 1, k - 1)
        /\ pc = "commit" => marks[pg] = page_instances
        /\ pc \in {"tmp", "save", "optimize"} => \A q \in DOMAIN marks : marks[q] = <<>>
        /\ \A i \in 1..Len(log) :
               (/\ log[i].op = "search"
                /\ log[i].n > 0
                /\ \E j \in i + 1..Len(log) : log[j].op \in {"search", "save"}) =>
                   LET n == log[i].n
                   IN /\ Len(log) >= i + n + 1
                      /\ \A m \in 1..n :
                            /\ log[i + m].op = "mark"
                            /\ log[i + m].n = m
                            /\ log[i + m].pg = log[i].pg
                      /\ log[i + n + 1].op = "commit"
                      /\ log[i + n + 1].n = n
                      /\ log[i + n + 1].pg = log[i].pg
                      /\ log[i + n + 1].pi = log[i].pi

\* C1 witness: the run has moved to the second page after marking and
\* committing at least two rectangles on the first
C1_Witness ==
    /\ mode = "apply" /\ pc = "search" /\ pg = 2
    /\ \E i \in 1..Len(log) : log[i].op = "commit" /\ log[i].pg = 1 /\ log[i].n >= 2

\* C2: the temporary file exists only inside _save_and_optimize: at every
\* position outside it, whatever the way out was (optimized, failed save,
\* optimizer fault, interrupt), there is no temporary file
C2_TempFileRemoved ==
    pc \notin {"save", "optimize", "cleanup"} => tmp = "absent"

\* C2 witness: _save_and_optimize was left on an optimizer fault, after the
\* raw save had written the temporary file
C2_Witness ==
    /\ pc = "close" /\ Has("optimize") /\ exc = "RedactionError"
    /\ faults \cap {"qpdf_status", "qpdf_missing"} # {}

\* C9: in apply mode the i-th search is that of pattern (i-1) div N + 1 on
\* page (i-1) mod N + 1 (N pages: pattern-major), the save is called only
\* after all patterns x pages were searched, the optimizer only right after
\* the save and with the raw file written, the close is the last call and
\* follows the optimizer in a run without fault, and save and optimizer are
\* each called at most once
C9_RunOrder ==
    (mode = "apply" /\ pc \in InRun) =>
        LET N == Len(doc)
            S == Searches
        IN /\ \A i \in 1..Len(S) :
                  /\ S[i].pi = ((i - 1) \div N) + 1
                  /\ S[i].pg = ((i - 1) % N) + 1
           /\ \A j \in 1..Len(log) :
                  /\ log[j].op = "save" =>
                         Len(SelectSeq(SubSeq(log, 1, j), LAMBDA ev : ev.op = "search"))
                             = Len(args.patterns) * N
                  /\ log[j].op = "optimize" => j > 1 /\ log[j - 1].op = "save"
                  /\ log[j].op = "close" =>
                         /\ j = Len(log)
                         /\ exc = "none" => log[j - 1].op = "optimize"
           /\ pc = "optimize" => tmp = "raw"
           /\ Len(Ops("save")) <= 1
           /\ Len(Ops("optimize")) <= 1

\* C9 witness: a run over two patterns and two pages that was saved,
\* optimized and closed
C9_Witness ==
    /\ mode = "apply" /\ pc = "return" /\ exc = "none"
    /\ Len(args.patterns) = 2 /\ Len(doc) = 2
    /\ Has("optimize") /\ ~docOpen

\* C3 (as claimed): once the optimizer has failed (bad exit status or
\* missing binary) the run carries a RedactionError and there is no file at
\* the output path
C3_NoOutputAfterOptimizerFault ==
    (/\ mode = "apply"
     /\ pc \in {"cleanup", "close", "return", "idle"}
     /\ faults \cap {"qpdf_status", "qpdf_missing"} # {}) =>
        /\ exc = "RedactionError"
        /\ out = "absent"

\* C4: the exit status of the optimizer decides the outcome: after 0, 2 or
\* 3 no exception is in flight and find_and_redact_text returns its count,
\* after any other status RedactionError is raised to the caller and no
\* count is returned; a count is returned only after an accepted status
C4_StatusDecidesOutcome ==
    (mode = "apply" /\ lastStatus # -1) =>
        /\ pc \in {"cleanup", "close", "return"} =>
               exc = IF lastStatus \in {0, 2, 3} THEN "none" ELSE "RedactionError"
        /\ pc \in {"idle", "main"} =>
               IF lastStatus \in {0, 2, 3}
               THEN exc = "none" /\ result = [kind |-> "count", value |-> total_redacted]
               ELSE exc = "RedactionError" /\ result = NoResult

\* C4 witness: the optimizer ended with status 2 and the call returned its
\* count
C4_Witness ==
    /\ mode = "apply" /\ pc = "idle" /\ lastStatus = 2
    /\ result.kind = "count" /\ result.value > 0

\* C5 (as claimed): after a failed commit nothing else is processed, the
\* document is neither saved nor optimized, the handle is closed, no count
\* is returned and the fault raised to the caller is RedactionError
C5_CommitFaultFatal ==
    (mode = "apply" /\ "commit" \in faults /\ pc \in {"return", "idle"}) =>
        /\ log[Len(log)].op = "close"
        /\ log[Len(log) - 1].op = "commit"
        /\ ~Has("save") /\ ~Has("optimize")
        /\ ~docOpen
        /\ pc = "idle" => result = NoResult
        /\ exc = "RedactionError"

\* the pattern compiles under the flags of the run
Compiles(p) == ReCompile(RegexSource(p, args.whole_words_only)).ok

\* what a run over the patterns pats finds per pattern on the document d,
\* every page searched and what was found on it redacted, pattern by pattern
RefPage(page, p) ==
    LET inst == FindInstances(page, p, args.case_sensitive, args.use_regex,
                              args.whole_words_only)
    IN [count |-> Len(inst), page |-> ApplyRedactions(page, inst)]

RECURSIVE SumSeq(_)
SumSeq(q) == IF q = <<>> THEN 0 ELSE Head(q) + SumSeq(Tail(q))

RECURSIVE RefCounts(_, _)
RefCounts(d, pats) ==
    IF pats = <<>> THEN <<>>
    ELSE LET r == [q \in 1..Len(d) |-> RefPage(d[q], Head(pats))]
         IN <<SumSeq([q \in 1..Len(d) |-> r[q].count])>>
            \o RefCounts([q \in 1..Len(d) |-> r[q].page], Tail(pats))

\* number of instances the searches of pattern i found in this run
FoundBy(i) ==
    LET S == Searches
    IN SumSeq([j \in 1..Len(S) |-> IF S[j].pi = i THEN S[j].n ELSE 0])

\* number of compiling patterns among the first i
Rank(i) == Len(SelectSeq(SubSeq(args.patterns, 1, i), Compiles))

\* C6: in regex mode a pattern that does not compile finds nothing on any
\* page and is never marked or committed; it raises nothing (a run without
\* collaborator fault carries no exception and goes through save and
\* optimize); and when the run reaches the save, every pattern that
\* compiles has found exactly what it finds in a run over the compiling
\* patterns alone, and total_redacted is the sum of those counts
C6_InvalidPatternRecovered ==
    (mode = "apply" /\ args.use_regex /\ pc \in InRun /\ docOpen) =>
        /\ \A j \in 1..Len(log) :
               (log[j].op \in {"search", "mark", "commit"}
                    /\ ~Compiles(args.patterns[log[j].pi])) =>
                   log[j].op = "search" /\ log[j].n = 0
        /\ faults = {} => exc = "none"
        /\ (faults = {} /\ pc = "close") => Has("save") /\ Has("optimize")
        /\ pc = "tmp" =>
               LET ref == RefCounts(fileDoc, SelectSeq(args.patterns, Compiles))
               IN /\ Len(Searches) = Len(args.patterns) * Len(doc)
                  /\ \A i \in 1..Len(args.patterns) :
                         FoundBy(i) = IF Compiles(args.patterns[i]) THEN ref[Rank(i)] ELSE 0
                  /\ total_redacted = SumSeq(ref)

\* C6 witness: a regex run with a pattern that does not compile and one
\* that found something has been saved and optimized
C6_Witness ==
    /\ mode = "apply" /\ args.use_regex /\ pc = "close" /\ exc = "none"
    /\ Has("optimize")
    /\ \E i \in 1..Len(args.patterns) : ~Compiles(args.patterns[i])
    /\ total_redacted > 0

\* C7 (as claimed): main() returns 0 when the input exists and no
\* collaborator faulted, and 1 otherwise
C7_ExitCode ==
    (entry = "cli" /\ pc = "done") =>
        exitCode = IF inputExists /\ faults = {} THEN 0 ELSE 1

\* C8: a step of preview_redactions changes no file, issues no mark, commit,
\* save or optimizer call, leaves the pages and marks of the open document
\* as they are, and the summary a second preview returns equals the summary
\* of the first
C8_PreviewReadOnly ==
    [][(mode = "preview" /\ pc \in {"open", "psearch", "close", "return"}) =>
          /\ tmp' = tmp /\ out' = out /\ fileDoc' = fileDoc
          /\ pc \in {"psearch", "close"} => doc' = doc /\ marks' = marks
          /\ \A j \in 1..Len(log') : log'[j].op \in {"open", "search", "close"}
          /\ (pc = "return" /\ exc = "none" /\ prevSummary.kind = "summary") =>
                 result' = prevSummary]_vars

\* C8 witness: a second preview that found something is about to return
C8_Witness ==
    /\ mode = "preview" /\ pc = "return" /\ exc = "none"
    /\ prevSummary.kind = "summary"
    /\ preview_results.total_instances > 0

(***************************************************************************)
(* The locator on its own: one page with one span of every text up to      *)
(* MaxTextLen characters or with two spans of shorter texts, every pattern *)
(* up to MaxPatLen characters, every combination of flags.                 *)
(***************************************************************************)
Texts == SeqsUpTo(TextChars, 0, MaxTextLen)

PatternStrings == SeqsUpTo(PatChars, 0, MaxPatLen)

\* the span texts of a page that has two spans
ShortTexts == SeqsUpTo({"a", "A", "b"}, 0, MaxTextLen - 2)

\* the documents the locator is run on: one page, of one span or of two
\* adjacent spans on the same line
LocatePages ==
    {<<<<Sp(t, <<0, 0, 50, 10>>)>>>> : t \in Texts}
    \cup {<<<<Sp(t, <<0, 0, 50, 10>>), Sp(u, <<50, 0, 80, 10>>)>>>> :
             t \in ShortTexts, u \in ShortTexts}

InitLocate ==
    /\ entry = "api"
    /\ args \in [patterns : {<<p>> : p \in PatternStrings}, case_sensitive : BOOLEAN,
                 use_regex : BOOLEAN, whole_words_only : BOOLEAN, dry_run : {FALSE}]
    /\ inputExists = TRUE
    /\ fileDoc \in LocatePages
    /\ pc = "locate"
    /\ mode = "none"
    /\ doc = fileDoc
    /\ docOpen = TRUE
    /\ pi = 1
    /\ pg = 1
    /\ page_instances = <<>>
    /\ k = 1
    /\ marks = <<<<>>>>
    /\ pattern_count = 0
    /\ pattern_pages = {}
    /\ total_redacted = 0
    /\ preview_results = EmptyPreview
    /\ tmp = "absent"
    /\ out = "absent"
    /\ exc = "none"
    /\ result = NoResult
    /\ exitCode = -1
    /\ log = <<>>
    /\ faults = {}
    /\ lastStatus = -1
    /\ prevSummary = NoResult

\* the locator call of lines 119-126 and 343-351, regex branch
LocateRegex ==
    /\ pc = "locate"
    /\ args.use_regex
    /\ page_instances' = FindRegexInstances(doc[pg], args.patterns[pi],
                             args.case_sensitive, args.whole_words_only)
    /\ pc' = "located"
    /\ UNCHANGED <<inputs, mode, doc, docOpen, pi, pg, k, marks, counters, files,
                   exc, result, exitCode, log, faults, lastStatus, prevSummary>>

\* the locator call of lines 119-126 and 343-351, literal branch
LocateText ==
    /\ pc = "locate"
    /\ ~args.use_regex
    /\ page_instances' = FindTextInstances(doc[pg], args.patterns[pi],
                             args.case_sensitive, args.whole_words_only)
    /\ pc' = "located"
    /\ UNCHANGED <<inputs, mode, doc, docOpen, pi, pg, k, marks, counters, files,
                   exc, result, exitCode, log, faults, lastStatus, prevSummary>>

NextLocate == LocateRegex \/ LocateText

SpecLocate == InitLocate /\ [][NextLocate]_vars

\* C10 (as claimed): every occurrence the locator reports in regex mode and
\* in literal case-insensitive mode has 0 <= start < end <= len(span.text)
C10_OffsetsInsideSpan ==
    (pc = "located" /\ (args.use_regex \/ ~args.case_sensitive)) =>
        \A i \in 1..Len(page_instances) :
            LET o == page_instances[i]
            IN /\ 0 <= o.s
               /\ o.s < o.e
               /\ o.e <= Len(doc[pg][o.span].text)

\* the start indices at which the lower-cased pattern occurs in the
\* lower-cased text of span si, as pairs <<si, start>>
CiStarts(spans, pattern) ==
    {<<si, p>> \in (1..Len(spans)) \X (0..(2 * MaxTextLen)) :
        OccursAt(Lower(spans[si].text), Lower(pattern), p)}

\* C11: a literal case-insensitive search reports, for each span, exactly
\* one occurrence for every start index at which the lower-cased pattern
\* occurs in the lower-cased span text (overlapping occurrences each
\* counted), nothing that straddles two spans, ordered by span index and
\* then by start offset
C11_EveryStartOnce ==
    (pc = "located" /\ ~args.use_regex /\ ~args.case_sensitive) =>
        LET found == page_instances
            pattern == args.patterns[pi]
            starts == CiStarts(doc[pg], pattern)
        IN /\ Len(found) = Cardinality(starts)
           /\ \A i \in 1..Len(found) :
                  /\ <<found[i].span, found[i].s>> \in starts
                  /\ found[i].e = found[i].s + Len(pattern)
           /\ \A i \in 1..(Len(found) - 1) :
                  \/ found[i].span < found[i + 1].span
                  \/ /\ found[i].span = found[i + 1].span
                     /\ found[i].s < found[i + 1].s

\* C11 witness: two overlapping occurrences of a two-character pattern,
\* one character apart in the same span
C11_Witness ==
    /\ pc = "located" /\ ~args.use_regex /\ ~args.case_sensitive
    /\ Len(args.patterns[pi]) = 2
    /\ \E i \in 1..(Len(page_instances) - 1) :
           /\ page_instances[i].span = page_instances[i + 1].span
           /\ page_instances[i + 1].s = page_instances[i].s + 1

\* C12 (as claimed): in regex mode and in literal case-insensitive mode the
\* rectangle of an occurrence (s, e) in a span with non-empty text of length
\* n and box (x0, y0, x1, y1), x1 >= x0, is (x0 + s*w, y0, x0 + e*w, y1)
\* with w = (x1 - x0) / n: it keeps the span's height, lies inside the
\* span's box, and is the span's box when the occurrence is the whole text
\* (abscissae are compared as numerators over the denominator n)
C12_RectInsideSpanBox ==
    (pc = "located" /\ (args.use_regex \/ ~args.case_sensitive)) =>
        \A i \in 1..Len(page_instances) :
            LET o == page_instances[i]
                bbox == doc[pg][o.span].bbox
                n == Len(doc[pg][o.span].text)
            IN (n > 0 /\ bbox[3] >= bbox[1]) =>
                  /\ o.rect.den = n
                  /\ o.rect.x0n = bbox[1] * n + o.s * (bbox[3] - bbox[1])
                  /\ o.rect.x1n = bbox[1] * n + o.e * (bbox[3] - bbox[1])
                  /\ o.rect.y0 = bbox[2] /\ o.rect.y1 = bbox[4]
                  /\ bbox[1] * n <= o.rect.x0n
                  /\ o.rect.x0n <= o.rect.x1n
                  /\ o.rect.x1n <= bbox[3] * n
                  /\ (o.s = 0 /\ o.e = n) =>
                         (o.rect.x0n = bbox[1] * n /\ o.rect.x1n = bbox[3] * n)

\* the sum of the count fields of the per-pattern reports of a summary
RECURSIVE SumCounts(_, _)
SumCounts(reports, keys) ==
    IF keys = {} THEN 0
    ELSE LET p == CHOOSE x \in keys : TRUE
         IN reports[p].count + SumCounts(reports, keys \ {p})

\* the elements of a list
Elems(q) == {q[i] : i \in 1..Len(q)}

\* C13 (as claimed): in the summary a preview returns, for any pattern
\* sequence (repeated entries included), total_instances is the sum of the
\* count fields of all per-pattern reports and pages_affected is the union
\* of the per-pattern page lists
C13_SummaryTotals ==
    (pc = "idle" /\ mode = "preview" /\ result.kind = "summary") =>
        LET summary == result.value
            reports == summary.patterns
        IN /\ summary.total_instances = SumCounts(reports, DOMAIN reports)
           /\ Elems(summary.pages_affected) =
                  UNION {Elems(reports[p].pages) : p \in DOMAIN reports}

\* C14 (as claimed): for the same document, patterns and flags, the total
\* an apply run returns equals the total_instances of the preview, also
\* when patterns overlap and earlier committed redactions have removed
\* text before a later pattern is searched
C14_ApplyTotalIsPreviewTotal ==
    (pc = "idle" /\ mode = "apply" /\ result.kind = "count"
        /\ prevSummary.kind = "summary") =>
        result.value = prevSummary.value.total_instances

====
